---- MODULE Spec2Model ----
(***************************************************************************)
(* A model of nbscan.py: build_file_list (explicit files, recursive walks, *)
(* the "submitted" walk, the empty-set exit, random sampling, sorting) and *)
(* scan_files (loading, the per-cell filter chain, printing).              *)
(*                                                                         *)
(* Python strings are modelled as sequences of one-character strings, so   *)
(* that substring tests ('/.' in path, p in path), suffix tests            *)
(* (fn.endswith('.ipynb')), os.path.join, sorted() and the escape codes of *)
(* highlight() are computed the way the code computes them.                *)
(***************************************************************************)
EXTENDS Integers, Sequences, FiniteSets, TLC

VARIABLES
    args,      \* the parsed command line (init_api)
    pattern,   \* __main__'s pattern: the text typed at the --prompt prompt
    content,   \* what nbformat.read makes of each regular file
    pc,        \* the statement the script is at
    file_set,  \* build_file_list's file_set
    lst,       \* the list build_file_list returned
    idx,       \* the position of scan_files' loop in the list, from 1
    nb,        \* the cells of the notebook being scanned
    ci,        \* the position of the loop over the cells, from 1
    matches,   \* scan_files' matches
    out,       \* the strings printed so far, one per call of print
    status     \* the exit status, -1 while the process runs

vars == <<args, pattern, content, pc, file_set, lst, idx, nb, ci, matches, out, status>>

(***************************************************************************)
(* Bounds of the model.                                                    *)
(***************************************************************************)
\* longest list of positional FN arguments
MaxFiles == 2
\* largest --random N tried
MaxRandom == 3
\* longest list of cells of a document drawn in InitScan
MaxCells == 2

(***************************************************************************)
(* Strings.                                                                *)
(***************************************************************************)
\* ord(c) for the characters the model uses
CharCode(c) ==
    CASE c = "ESC" -> 27
      [] c = " " -> 32
      [] c = "#" -> 35
      [] c = "-" -> 45
      [] c = "." -> 46
      [] c = "/" -> 47
      [] c = "0" -> 48
      [] c = "1" -> 49
      [] c = "3" -> 51
      [] c = "4" -> 52
      [] c = "=" -> 61
      [] c = "D" -> 68
      [] c = "F" -> 70
      [] c = "Q" -> 81
      [] c = "[" -> 91
      [] c = "^" -> 94
      [] c = "a" -> 97
      [] c = "b" -> 98
      [] c = "c" -> 99
      [] c = "d" -> 100
      [] c = "e" -> 101
      [] c = "f" -> 102
      [] c = "h" -> 104
      [] c = "i" -> 105
      [] c = "l" -> 108
      [] c = "m" -> 109
      [] c = "n" -> 110
      [] c = "o" -> 111
      [] c = "p" -> 112
      [] c = "q" -> 113
      [] c = "s" -> 115
      [] c = "t" -> 116
      [] c = "u" -> 117
      [] c = "w" -> 119
      [] c = "x" -> 120
      [] c = "y" -> 121
      [] c = "z" -> 122
      [] OTHER -> 0

\* s < t in Python's string order (code points, a proper prefix first)
RECURSIVE StrLess(_, _)
StrLess(s, t) ==
    IF t = <<>> THEN FALSE
    ELSE IF s = <<>> THEN TRUE
    ELSE IF CharCode(Head(s)) # CharCode(Head(t))
         THEN CharCode(Head(s)) < CharCode(Head(t))
         ELSE StrLess(Tail(s), Tail(t))

\* p in s
Contains(s, p) ==
    \E i \in 0..(Len(s) - Len(p)) : SubSeq(s, i + 1, i + Len(p)) = p

\* s.endswith(suf)
EndsWith(s, suf) ==
    /\ Len(suf) <= Len(s)
    /\ SubSeq(s, Len(s) - Len(suf) + 1, Len(s)) = suf

\* s.startswith(pre)
StartsWith(s, pre) ==
    /\ Len(pre) <= Len(s)
    /\ SubSeq(s, 1, Len(pre)) = pre

\* os.path.join(path, fn) for a relative fn
JoinPath(path, fn) ==
    IF path = <<>> \/ EndsWith(path, <<"/">>) THEN path \o fn
    ELSE path \o <<"/">> \o fn

\* sorted(S) for a set of strings
RECURSIVE Sorted(_)
Sorted(S) ==
    IF S = {} THEN <<>>
    ELSE LET m == CHOOSE x \in S : \A y \in S \ {x} : StrLess(x, y)
         IN <<m>> \o Sorted(S \ {m})

Range(s) == {s[i] : i \in 1..Len(s)}

\* sequences over S of length at most n
SeqsUpTo(S, n) == UNION {[1..k -> S] : k \in 0..n}

\* an optional value: Python's None, or a value
None == [given |-> FALSE, val |-> <<>>]
Some(v) == [given |-> TRUE, val |-> v]
\* Python truthiness of an optional string or list
Truthy(o) == o.given /\ o.val # <<>>
\* Python truthiness of an optional int
TruthyInt(o) == o.given /\ o.val # 0
NoneInt == [given |-> FALSE, val |-> 0]

(***************************************************************************)
(* The file system the program runs in.                                    *)
(***************************************************************************)
IPYNB == <<".", "i", "p", "y", "n", "b">>
SUBMITTED == <<"s", "u", "b", "m", "i", "t", "t", "e", "d">>
HiddenMark == <<"/", ".">>

X_NB == <<"x">> \o IPYNB
Y_NB == <<"y">> \o IPYNB
Z_NB == <<"z">> \o IPYNB
HW_NB == <<"h", "w">> \o IPYNB
N_TXT == <<"n", ".", "t", "x", "t">>

\* the directories below the working directory (paths relative to it) and
\* the regular files each holds
FSDirs ==
    { [path |-> <<"a">>, files |-> {X_NB, N_TXT}],
      [path |-> <<"a", "/", "b">>, files |-> {Y_NB}],
      [path |-> <<"a", "/", ".", "c">>, files |-> {Z_NB}],
      [path |-> <<".", "h">>, files |-> {X_NB}],
      [path |-> SUBMITTED, files |-> {}],
      [path |-> SUBMITTED \o <<"/", "h", "w", "1">>, files |-> {X_NB}],
      [path |-> SUBMITTED \o <<"/", "h", "w", "1", "/", ".", "c">>, files |-> {Z_NB}],
      [path |-> SUBMITTED \o <<"/", "a", "l">>, files |-> {HW_NB}] }

\* os.path.isfile(fn) holds of exactly these paths
RegularFiles == UNION {{JoinPath(d.path, f) : f \in d.files} : d \in FSDirs}

isfile(fn) == fn \in RegularFiles

\* the regular file a path the walk produced names: a leading "./" is the
\* working directory
Resolve(fn) == IF StartsWith(fn, <<".", "/">>) THEN SubSeq(fn, 3, Len(fn)) ELSE fn

\* os.walk(dn): the (path, fnames) pairs of dn and of every directory below
\* it, path beginning with dn as given; nothing when dn is not a directory
walk(dn) ==
    IF dn = <<".">>
    THEN {[path |-> <<".">>, fnames |-> {}]}
         \cup {[path |-> JoinPath(dn, d.path), fnames |-> d.files] : d \in FSDirs}
    ELSE {[path |-> d.path, fnames |-> d.files] :
             d \in {e \in FSDirs : e.path = dn \/ StartsWith(e.path, dn \o <<"/">>)}}

(***************************************************************************)
(* build_file_list                                                         *)
(***************************************************************************)
\* the "No such file: fn" line
NoSuchFile(fn) == <<"N", "o", " ", "s", "u", "c", "h", " ", "f", "i", "l", "e", ":", " ">> \o fn
NoFilesToScan == <<"N", "o", " ", "f", "i", "l", "e", "s", " ", "t", "o", " ", "s", "c", "a", "n">>

\* the lines filter_argv_files prints, in the order of args.files
RECURSIVE MissingLines(_)
MissingLines(fs) ==
    IF fs = <<>> THEN <<>>
    ELSE (IF isfile(Head(fs)) THEN <<>> ELSE <<NoSuchFile(Head(fs))>>)
         \o MissingLines(Tail(fs))

\* the names filter_argv_files adds to the set
FoundFiles(fs) == {fs[i] : i \in {j \in 1..Len(fs) : isfile(fs[j])}}

\* line 57: projects and not any(p in path for p in projects)
ProjectSkips(path, projects) ==
    /\ Truthy(projects)
    /\ ~ \E i \in 1..Len(projects.val) : Contains(path, projects.val[i])

\* a variant that tests the directory's own name: basename(path)[0] == '.'
HiddenSkips_Basename(path) ==
    \E i \in 1..Len(path) :
        /\ path[i] = "."
        /\ i = 1 \/ path[i - 1] = "/"
        /\ \A j \in i..Len(path) : path[j] # "/"

\* line 55: '/.' in path
HiddenSkips(path) == Contains(path, HiddenMark)

\* line 60: fn.endswith('.ipynb')
IsNotebookName(fn) == EndsWith(fn, IPYNB)

\* the paths add_files_in_dir adds for the roots dirnames
add_files_in_dir(dirnames, projects) ==
    UNION { { JoinPath(w.path, fn) : fn \in {f \in w.fnames : IsNotebookName(f)} } :
            w \in { v \in UNION {walk(dirnames[i]) : i \in 1..Len(dirnames)} :
                      /\ ~ HiddenSkips(v.path)
                      /\ ~ ProjectSkips(v.path, projects) } }

\* a variant that returns up to k elements
Samples_AtMost(population, k) == {s \in SUBSET population : Cardinality(s) <= k}

\* random.sample(population, k): every k-subset is a possible outcome;
\* ValueError when k is negative or exceeds the population
SampleRaises(population, k) == k < 0 \/ k > Cardinality(population)

Samples(population, k) == {s \in SUBSET population : Cardinality(s) = k}

Terminal == {"done", "exited", "raised"}

\* what the operator may type at the prompt: a pattern, or nothing
TypedChoices == {<<"q">>, <<>>}

\* what input('pattern: ') writes to standard output
PromptText == <<"p", "a", "t", "t", "e", "r", "n", ":", " ">>

\* lines 214-215: with --prompt the pattern is read from the operator
Prompt ==
    /\ pc = "prompt"
    /\ IF args.prompt
       THEN /\ out' = Append(out, PromptText)
            /\ \E typed \in TypedChoices : pattern' = typed
       ELSE UNCHANGED <<out, pattern>>
    /\ pc' = "argv"
    /\ UNCHANGED <<args, content, file_set, lst, idx, nb, ci, matches, status>>

\* a variant that reports the missing files and goes on
FilterArgvFiles_NoExit ==
    /\ pc = "argv"
    /\ file_set' = file_set \cup FoundFiles(args.files)
    /\ out' = out \o MissingLines(args.files)
    /\ pc' = "dirs"
    /\ UNCHANGED <<args, pattern, content, lst, idx, nb, ci, matches, status>>

\* lines 37-45 and 65
FilterArgvFiles ==
    /\ pc = "argv"
    /\ file_set' = file_set \cup FoundFiles(args.files)
    /\ out' = out \o MissingLines(args.files)
    /\ IF \E i \in 1..Len(args.files) : ~ isfile(args.files[i])
       THEN pc' = "exited" /\ status' = 1
       ELSE pc' = "dirs" /\ status' = status
    /\ UNCHANGED <<args, pattern, content, lst, idx, nb, ci, matches>>

\* lines 67-68
AddDirs ==
    /\ pc = "dirs"
    /\ file_set' = IF Truthy(args.dir)
                   THEN file_set \cup add_files_in_dir(args.dir.val, None)
                   ELSE file_set
    /\ pc' = "submitted"
    /\ UNCHANGED <<args, pattern, content, lst, idx, nb, ci, matches, out, status>>

\* a variant that walks submitted whether or not --submitted was given
AddSubmitted_Always ==
    /\ pc = "submitted"
    /\ file_set' = file_set \cup add_files_in_dir(<<SUBMITTED>>, args.submitted)
    /\ pc' = "check"
    /\ UNCHANGED <<args, pattern, content, lst, idx, nb, ci, matches, out, status>>

\* lines 70-71
AddSubmitted ==
    /\ pc = "submitted"
    /\ file_set' = IF Truthy(args.submitted)
                   THEN file_set \cup add_files_in_dir(<<SUBMITTED>>, args.submitted)
                   ELSE file_set
    /\ pc' = "check"
    /\ UNCHANGED <<args, pattern, content, lst, idx, nb, ci, matches, out, status>>

\* a variant that reports the empty set and goes on
CheckEmpty_NoExit ==
    /\ pc = "check"
    /\ out' = IF Cardinality(file_set) = 0 THEN Append(out, NoFilesToScan) ELSE out
    /\ pc' = "return"
    /\ UNCHANGED <<args, pattern, content, file_set, lst, idx, nb, ci, matches, status>>

\* lines 73-75
CheckEmpty ==
    /\ pc = "check"
    /\ IF Cardinality(file_set) = 0
       THEN /\ out' = Append(out, NoFilesToScan)
            /\ pc' = "exited"
            /\ status' = 1
       ELSE /\ pc' = "return"
            /\ UNCHANGED <<out, status>>
    /\ UNCHANGED <<args, pattern, content, file_set, lst, idx, nb, ci, matches>>

\* lines 77-80 and 217-218: the list handed to scan_files
ReturnList ==
    /\ pc = "return"
    /\ IF TruthyInt(args.random)
       THEN IF SampleRaises(file_set, args.random.val)
            THEN pc' = "raised" /\ status' = 1 /\ lst' = lst
            ELSE /\ \E s \in Samples(file_set, args.random.val) : lst' = Sorted(s)
                 /\ pc' = "scan"
                 /\ status' = status
       ELSE /\ lst' = Sorted(file_set)
            /\ pc' = "scan"
            /\ status' = status
    /\ UNCHANGED <<args, pattern, content, file_set, idx, nb, ci, matches, out>>

(***************************************************************************)
(* scan_files                                                              *)
(***************************************************************************)
\* str.lower() on the letters the model uses
Lower(c) ==
    CASE c = "D" -> "d"
      [] c = "E" -> "e"
      [] c = "F" -> "f"
      [] c = "Q" -> "q"
      [] OTHER -> c

LowerStr(s) == [i \in 1..Len(s) |-> Lower(s[i])]

\* The regular expressions of the model: literal characters, optionally
\* preceded by the anchor ^ (no re.MULTILINE, so ^ is the start of the text).
Anchored(pat) == pat # <<>> /\ Head(pat) = "^"
Literal(pat) == IF Anchored(pat) THEN Tail(pat) ELSE pat

\* the pattern matches text at the 0-based position i, ignoring case
MatchAt(pat, text, i) ==
    /\ i + Len(Literal(pat)) <= Len(text)
    /\ Anchored(pat) => i = 0
    /\ LowerStr(SubSeq(text, i + 1, i + Len(Literal(pat)))) = LowerStr(Literal(pat))

\* re.search(pattern, text, re.IGNORECASE) is not None
re_search(pat, text) == \E i \in 0..Len(text) : MatchAt(pat, text, i)

\* line 122: '\033[03{:1d}m{}\033[m'.format(cn, text)
highlight(text, cn) ==
    <<"ESC", "[", "0", "3", cn, "m">> \o text \o <<"ESC", "[", "m">>

\* re.sub(pattern, lambda m: highlight(m.group(0), 4), text, flags=re.IGNORECASE)
\* from the 0-based position i on: leftmost non-overlapping matches
RECURSIVE re_sub_from(_, _, _)
re_sub_from(pat, text, i) ==
    IF i >= Len(text)
    THEN IF i = 0 /\ MatchAt(pat, text, 0) THEN highlight(<<>>, "4") ELSE <<>>
    ELSE IF MatchAt(pat, text, i)
         THEN IF Literal(pat) = <<>>
              THEN highlight(<<>>, "4") \o SubSeq(text, 1, Len(text))
              ELSE highlight(SubSeq(text, i + 1, i + Len(Literal(pat))), "4")
                   \o re_sub_from(pat, text, i + Len(Literal(pat)))
         ELSE <<text[i + 1]>> \o re_sub_from(pat, text, i + 1)

\* line 218: args.grep or (args.prompt and pattern)
Pattern(a) ==
    IF Truthy(a.grep) THEN a.grep
    ELSE IF a.prompt THEN Some(pattern)
    ELSE None

\* lines 115-119
colorized(a, text) ==
    IF a.plain \/ ~ Truthy(Pattern(a)) THEN text
    ELSE re_sub_from(Pattern(a).val, text, 0)

\* '=' * len(fn)
Underline(fn) == [i \in 1..Len(fn) |-> "="]
Dashes == [i \in 1..9 |-> "-"]

\* lines 109-112: what the loop over lst prints
RECURSIVE HitLines(_, _)
HitLines(a, l) ==
    IF l = <<>> THEN <<>>
    ELSE <<colorized(a, Head(l))>>
         \o (IF ~ a.plain THEN <<highlight(Dashes, "1")>> ELSE <<>>)
         \o HitLines(a, Tail(l))

\* a variant that prints the separators in plain mode too
print_hits_SeparatorsAlways(a, fn, l) ==
    (IF ~ a.plain THEN <<highlight(fn, "1"), highlight(Underline(fn), "1")>> ELSE <<>>)
    \o HitLines([a EXCEPT !.plain = FALSE], l)
    \o << <<>> >>

\* lines 99-113: the strings print_hits prints, one per call of print
print_hits(a, fn, l) ==
    (IF ~ a.plain THEN <<highlight(fn, "1"), highlight(Underline(fn), "1")>> ELSE <<>>)
    \o HitLines(a, l)
    \o << <<>> >>

\* lines 90-97: print('  ', tag) prints the two blanks, a blank, the tag
print_cell_ids(fn, l) ==
    <<fn>> \o [i \in 1..Len(l) |-> <<" ", " ", " ">> \o l[i]] \o << <<>> >>

\* line 132
CellType(a) ==
    IF a.code THEN Some(<<"code">>)
    ELSE IF a.markdown THEN Some(<<"markdown">>)
    ELSE None

\* line 135: the grade_id of the nbgrader metadata, None without either
Tag(cell) == IF cell.nbgrader THEN cell.grade_id ELSE None

\* line 136
TypeRejects(a, cell) == Truthy(CellType(a)) /\ <<cell.cell_type>> # CellType(a).val

\* line 138
IdRejects(a, cell) == Truthy(a.id) /\ Tag(cell) # a.id

\* a variant that uses re.match: the pattern must match at the start
PatternRejects_Match(a, cell) ==
    Truthy(Pattern(a)) /\ ~ MatchAt(Pattern(a).val, cell.source, 0)

\* line 140
PatternRejects(a, cell) ==
    Truthy(Pattern(a)) /\ ~ re_search(Pattern(a).val, cell.source)

\* lines 135-146: what one cell appends to matches
CellMatches(a, cell) ==
    IF TypeRejects(a, cell) \/ IdRejects(a, cell) \/ PatternRejects(a, cell)
    THEN <<>>
    ELSE IF a.tags
         THEN (IF Tag(cell).given THEN <<Tag(cell).val>> ELSE <<>>)
         ELSE <<cell.source>>

\* a variant that catches NotJSONError alone
Caught_NotJSONOnly(kind) == kind = "notjson"

\* line 127: except (NotJSONError, UnicodeDecodeError)
Caught(kind) == kind \in {"notjson", "badenc"}

\* a variant with break for continue: the loop ends at a file it cannot read
AfterSkip_Break(i, n) == n + 1

\* line 129: continue takes the loop to the next file of the n in the list
AfterSkip(i, n) == i + 1

\* str(e) of the two exceptions line 127 catches
ErrMsg(kind) ==
    IF kind = "notjson" THEN <<"NotJSONError">> ELSE <<"UnicodeDecodeError">>

\* lines 124-131: the loop takes the next file and reads it
Load ==
    /\ pc = "scan"
    /\ idx <= Len(lst)
    /\ LET c == content[Resolve(lst[idx])]
       IN CASE c.kind = "nb" ->
                 /\ nb' = c.cells
                 /\ matches' = <<>>
                 /\ ci' = 1
                 /\ pc' = "cells"
                 /\ UNCHANGED <<idx, out, status>>
            [] Caught(c.kind) ->
                 /\ out' = Append(out, ErrMsg(c.kind) \o <<" ">> \o lst[idx])
                 /\ idx' = AfterSkip(idx, Len(lst))
                 /\ UNCHANGED <<pc, nb, ci, matches, status>>
            [] OTHER ->
                 /\ pc' = "raised"
                 /\ status' = 1
                 /\ UNCHANGED <<idx, nb, ci, matches, out>>
    /\ UNCHANGED <<args, pattern, content, file_set, lst>>

\* lines 134-146: one iteration of the loop over the cells
FilterCell ==
    /\ pc = "cells"
    /\ ci <= Len(nb)
    /\ matches' = matches \o CellMatches(args, nb[ci])
    /\ ci' = ci + 1
    /\ UNCHANGED <<args, pattern, content, pc, file_set, lst, idx, nb, out, status>>

\* a variant without the test of line 148
Emit_AlwaysPrints ==
    /\ pc = "cells"
    /\ ci > Len(nb)
    /\ out' = IF args.tags
              THEN out \o print_cell_ids(lst[idx], matches)
              ELSE out \o print_hits(args, lst[idx], matches)
    /\ idx' = idx + 1
    /\ pc' = "scan"
    /\ UNCHANGED <<args, pattern, content, file_set, lst, nb, ci, matches, status>>

\* lines 148-152: after the last cell
Emit ==
    /\ pc = "cells"
    /\ ci > Len(nb)
    /\ out' = IF Len(matches) > 0
              THEN IF args.tags
                   THEN out \o print_cell_ids(lst[idx], matches)
                   ELSE out \o print_hits(args, lst[idx], matches)
              ELSE out
    /\ idx' = idx + 1
    /\ pc' = "scan"
    /\ UNCHANGED <<args, pattern, content, file_set, lst, nb, ci, matches, status>>

\* the loop of line 124 is exhausted: the script ends, exit status 0
Finish ==
    /\ pc = "scan"
    /\ idx > Len(lst)
    /\ pc' = "done"
    /\ status' = 0
    /\ UNCHANGED <<args, pattern, content, file_set, lst, idx, nb, ci, matches, out>>

(***************************************************************************)
(* The invocations and file contents the model starts from.                *)
(***************************************************************************)
A_X == <<"a", "/">> \o X_NB
A_Y == <<"a", "/", "b", "/">> \o Y_NB
A_N == <<"a", "/">> \o N_TXT
NO_NB == <<"n", "o">> \o IPYNB

\* positional arguments: a notebook, a file that is no notebook, a missing file
ExplicitNames == {A_X, A_N, NO_NB}

\* args.dir: None without --dir, else the roots in command-line order
DirChoices ==
    {None, Some(<< <<"a">> >>), Some(<< <<".", "h">> >>), Some(<< <<".">> >>),
     Some(<< <<"z", "z">> >>), Some(<< <<"a", "/", "b">>, <<"a">> >>)}

\* args.submitted: None without --submitted, else the names given
SubmittedChoices ==
    {None, Some(<< <<"h", "w">> >>), Some(<< <<"z", "z">>, <<"a", "l">> >>),
     Some(<< <<>> >>)}

\* args.random: None without --random, else any int
RandomChoices == {NoneInt} \cup {Some(n) : n \in -1..MaxRandom}

\* the cells documents are made of
CellCodeQ1 ==
    [cell_type |-> "code", source |-> <<"d", "e", "f", " ", "f">>,
     nbgrader |-> TRUE, grade_id |-> Some(<<"q", "1">>)]
CellMdPlain ==
    [cell_type |-> "markdown", source |-> <<"#", " ", "Q", "1">>,
     nbgrader |-> FALSE, grade_id |-> None]
CellRawNoId ==
    [cell_type |-> "raw", source |-> <<"D", "e", "f", " ", "#">>,
     nbgrader |-> TRUE, grade_id |-> None]
Cells == {CellCodeQ1, CellMdPlain, CellRawNoId}

Doc(cells) == [kind |-> "nb", cells |-> cells]
Failure(kind) == [kind |-> kind, cells |-> <<>>]

\* what nbformat.read makes of each regular file
ContentDefault ==
    [f \in RegularFiles |->
        IF f = A_X THEN Doc(<<CellCodeQ1, CellMdPlain>>)
        ELSE IF f = A_Y THEN Doc(<<CellMdPlain>>)
        ELSE IF f = A_N THEN Failure("notjson")
        ELSE IF f = SUBMITTED \o <<"/", "h", "w", "1", "/">> \o X_NB THEN Failure("badenc")
        ELSE Doc(<<CellRawNoId>>)]

\* the options that do not select files; argparse admits at most one of
\* --grep/--prompt and at most one of --id/--code/--markdown
ConfigDefault ==
    [grep |-> None, prompt |-> FALSE, id |-> None,
     code |-> FALSE, markdown |-> FALSE, tags |-> FALSE, plain |-> TRUE]

TypeOptions ==
    { [id |-> None, code |-> FALSE, markdown |-> FALSE],
      [id |-> None, code |-> TRUE, markdown |-> FALSE],
      [id |-> None, code |-> FALSE, markdown |-> TRUE],
      [id |-> Some(<<"q", "1">>), code |-> FALSE, markdown |-> FALSE],
      [id |-> Some(<<>>), code |-> FALSE, markdown |-> FALSE] }

PatternOptions ==
    { [grep |-> None, prompt |-> FALSE],
      [grep |-> Some(<<"^", "#">>), prompt |-> FALSE],
      [grep |-> Some(<<"d", "e", "f">>), prompt |-> FALSE],
      [grep |-> None, prompt |-> TRUE] }

MkArgs(files, dir, submitted, random, t, p, tags, plain) ==
    [files |-> files, dir |-> dir, submitted |-> submitted, random |-> random,
     grep |-> p.grep, prompt |-> p.prompt,
     id |-> t.id, code |-> t.code, markdown |-> t.markdown,
     tags |-> tags, plain |-> plain]

\* the state after init_api (line 212): nothing read, nothing printed
Start ==
    /\ pc = "prompt"
    /\ pattern = <<>>
    /\ file_set = {}
    /\ lst = <<>>
    /\ idx = 1
    /\ nb = <<>>
    /\ ci = 1
    /\ matches = <<>>
    /\ out = <<>>
    /\ status = -1

\* every selection of files, the other options and the files' contents fixed
Init ==
    /\ \E files \in SeqsUpTo(ExplicitNames, MaxFiles), dir \in DirChoices,
          submitted \in SubmittedChoices, random \in RandomChoices, prompt \in BOOLEAN :
          args = MkArgs(files, dir, submitted, random,
                        ConfigDefault, [grep |-> None, prompt |-> prompt], FALSE, TRUE)
    /\ content = ContentDefault
    /\ Start

\* a few selections, for the specifications that vary something else
Selections ==
    { [files |-> <<>>, dir |-> None, random |-> NoneInt],
      [files |-> <<NO_NB, A_X>>, dir |-> Some(<< <<"a">> >>), random |-> NoneInt],
      [files |-> <<A_N>>, dir |-> Some(<< <<"a">> >>), random |-> NoneInt],
      [files |-> <<A_N>>, dir |-> Some(<< <<"a">> >>), random |-> Some(2)] }

LoadKinds == {"nb", "notjson", "badenc", "oserror"}

\* every outcome of nbformat.read for each of the three files scanned
InitLoad ==
    /\ \E sel \in Selections, tags \in BOOLEAN, plain \in BOOLEAN :
          args = MkArgs(sel.files, sel.dir, None, sel.random,
                        ConfigDefault, ConfigDefault, tags, plain)
    /\ \E kx \in LoadKinds, ky \in LoadKinds, kn \in LoadKinds :
          content = [f \in RegularFiles |->
                        IF f = A_X THEN [ContentDefault[f] EXCEPT !.kind = kx]
                        ELSE IF f = A_Y THEN [ContentDefault[f] EXCEPT !.kind = ky]
                        ELSE IF f = A_N THEN [ContentDefault[f] EXCEPT !.kind = kn]
                        ELSE ContentDefault[f]]
    /\ Start

\* every document of at most MaxCells cells under every search configuration
InitScan ==
    /\ \E sel \in Selections, t \in TypeOptions, p \in PatternOptions,
          tags \in BOOLEAN, plain \in BOOLEAN :
          args = MkArgs(sel.files, sel.dir, None, sel.random, t, p, tags, plain)
    /\ \E cells \in SeqsUpTo(Cells, MaxCells) :
          content = [ContentDefault EXCEPT ![A_X] = Doc(cells)]
    /\ Start

Next ==
    \/ Prompt
    \/ FilterArgvFiles
    \/ AddDirs
    \/ AddSubmitted
    \/ CheckEmpty
    \/ ReturnList
    \/ Load
    \/ FilterCell
    \/ Emit
    \/ Finish

Spec == Init /\ [][Next]_vars

SpecLoad == InitLoad /\ [][Next]_vars

SpecScan == InitScan /\ [][Next]_vars

\* the script is one sequential thread: while a statement is left to run,
\* it runs
SpecLoadFair == InitLoad /\ [][Next]_vars /\ WF_vars(Next)

(***************************************************************************)
(* Vocabulary of the properties, written without the operators above.      *)
(***************************************************************************)
\* the components of a path, split at "/"
RECURSIVE Components(_)
Components(s) ==
    IF \A i \in 1..Len(s) : s[i] # "/" THEN <<s>>
    ELSE LET k == CHOOSE i \in 1..Len(s) :
                     s[i] = "/" /\ \A j \in 1..(i - 1) : s[j] # "/"
         IN <<SubSeq(s, 1, k - 1)>> \o Components(SubSeq(s, k + 1, Len(s)))

\* the directory part of a file's path: all but "/" and the last component
DirPart(f) == SubSeq(f, 1, Len(f) - Len(Components(f)[Len(Components(f))]) - 1)

BeginsWithPeriod(c) == c # <<>> /\ c[1] = "."

\* a directory component of f, from the k-th on, is a hidden directory
HiddenFrom(f, k) ==
    \E i \in k..(Len(Components(f)) - 1) :
        /\ BeginsWithPeriod(Components(f)[i])
        /\ Components(f)[i] \notin {<<".">>, <<".", ".">>}

IsPrefixOf(s, t) == Len(s) <= Len(t) /\ \A i \in 1..Len(s) : s[i] = t[i]

\* the regular files at any depth under the directory root, each written
\* from root as given
FilesUnder(root) ==
    IF root = <<".">> THEN {<<".", "/">> \o f : f \in RegularFiles}
    ELSE {f \in RegularFiles :
            /\ Len(Components(root)) < Len(Components(f))
            /\ IsPrefixOf(Components(root), Components(f))}

NotebooksUnder(root) ==
    {f \in FilesUnder(root) :
        Len(f) >= 6 /\ [i \in 1..6 |-> f[Len(f) - 6 + i]] = <<".", "i", "p", "y", "n", "b">>}

AnyMissing == \E i \in 1..Len(args.files) : args.files[i] \notin RegularFiles

ValidExplicit == {f \in Range(args.files) : f \in RegularFiles}

DirRoots == IF args.dir.given THEN Range(args.dir.val) ELSE {}

Groups == IF args.submitted.given THEN Range(args.submitted.val) ELSE {}

\* strictly increasing in Python's string order: sorted, without duplicates
StrictlySorted(l) == \A i \in 1..Len(l), j \in 1..Len(l) : i < j => StrLess(l[i], l[j])

\* what the program has printed, the echo of the --prompt prompt left out
Reports ==
    IF args.prompt /\ out # <<>> /\ out[1] = <<"p", "a", "t", "t", "e", "r", "n", ":", " ">>
    THEN SubSeq(out, 2, Len(out))
    ELSE out

BuildStates == {"prompt", "argv", "dirs", "submitted", "check", "return"}

(***************************************************************************)
(* C1: when some explicitly named file is not a regular file, each missing *)
(* path is reported, the process ends with exit status 1, and no file is   *)
(* loaded or scanned: nothing is walked, sampled, returned or read.        *)
(***************************************************************************)
C1_MissingExplicitFileIsFatal ==
    AnyMissing =>
        /\ pc \in {"prompt", "argv", "exited"}
        /\ pc = "exited" =>
              /\ status = 1
              /\ LET NotRegular(f) == f \notin RegularFiles
                     missing == SelectSeq(args.files, NotRegular)
                 IN Reports = [k \in 1..Len(missing) |->
                                  <<"N", "o", " ", "s", "u", "c", "h", " ", "f", "i", "l", "e", ":", " ">>
                                  \o missing[k]]
        /\ file_set \subseteq ValidExplicit
        /\ lst = <<>> /\ nb = <<>> /\ matches = <<>> /\ idx = 1

\* an invocation naming a missing file and an existing one, with a --dir
\* root that holds notebooks, has exited
C1_Witness ==
    /\ pc = "exited"
    /\ AnyMissing
    /\ ValidExplicit # {}
    /\ args.dir = Some(<< <<"a">> >>)

(***************************************************************************)
(* C2 as stated: without --random the returned list is the sorted union of *)
(* the valid explicit paths, the notebooks under each --dir root outside   *)
(* hidden directories, and the notebooks under submitted whose path holds  *)
(* a requested group name.                                                 *)
(***************************************************************************)
C2_ClaimedUnion ==
    ValidExplicit
    \cup UNION {{f \in NotebooksUnder(r) : ~ HiddenFrom(f, 1)} : r \in DirRoots}
    \cup {f \in NotebooksUnder(SUBMITTED) : \E g \in Groups : Contains(f, g)}

C2_AmendedUnion ==
    ValidExplicit
    \cup UNION {{f \in NotebooksUnder(r) :
                    ~ \E i \in 2..(Len(Components(f)) - 1) : BeginsWithPeriod(Components(f)[i])} :
                r \in DirRoots}
    \cup {f \in NotebooksUnder(SUBMITTED) :
            /\ ~ HiddenFrom(f, 2)
            /\ \E g \in Groups : Contains(DirPart(f), g)}

SubmittedNotebooks == {f \in NotebooksUnder(SUBMITTED) : ~ HiddenFrom(f, 2)}

C4_EmptyFileSetIsFatal ==
    (~ AnyMissing /\ pc \notin {"prompt", "argv", "dirs", "submitted", "check"}) =>
        IF file_set = {}
        THEN /\ pc = "exited"
             /\ status = 1
             /\ Reports = << <<"N", "o", " ", "f", "i", "l", "e", "s", " ", "t", "o", " ", "s", "c", "a", "n">> >>
             /\ lst = <<>> /\ nb = <<>> /\ matches = <<>> /\ idx = 1
        ELSE pc # "exited"

\* a walk that found nothing, with a sample requested, has exited
C4_Witness ==
    /\ pc = "exited"
    /\ file_set = {}
    /\ args.dir = Some(<< <<"z", "z">> >>)
    /\ args.random = Some(1)

(***************************************************************************)
(* C5 as stated: for every requested N and non-empty file set of size M,   *)
(* N <= M returns exactly N distinct elements of the set in sorted order,  *)
(* and N > M is an error returning no list.                                *)
(***************************************************************************)
C5_Original ==
    (args.random.given /\ ~ AnyMissing /\ file_set # {} /\ pc \notin BuildStates) =>
        IF args.random.val <= Cardinality(file_set)
        THEN /\ Len(lst) = args.random.val
             /\ StrictlySorted(lst)
             /\ Range(lst) \subseteq file_set
        ELSE pc = "raised" /\ lst = <<>>

(***************************************************************************)
(* C5 amended: for 1 <= N <= M the returned list has exactly N distinct    *)
(* elements of the file set, in sorted order; N > M and N < 0 are errors   *)
(* (random.sample raises) and no list is returned; --random 0 is treated   *)
(* as no --random: the whole sorted file set is returned.                  *)
(***************************************************************************)
C5_SampleSizeAndOrder ==
    (args.random.given /\ ~ AnyMissing /\ file_set # {} /\ pc \notin BuildStates) =>
        IF args.random.val = 0
        THEN StrictlySorted(lst) /\ Range(lst) = file_set
        ELSE IF 1 <= args.random.val /\ args.random.val <= Cardinality(file_set)
        THEN /\ Len(lst) = args.random.val
             /\ StrictlySorted(lst)
             /\ Range(lst) \subseteq file_set
        ELSE pc = "raised" /\ lst = <<>>

\* a proper sample of two files has been returned
C5_Witness ==
    /\ pc = "scan"
    /\ args.random = Some(2)
    /\ Len(lst) = 2
    /\ Cardinality(file_set) > 2

(***************************************************************************)
(* Vocabulary of the cell filter properties.                               *)
(***************************************************************************)
\* the pattern in force, as a set: empty when no pattern is set
PatternSet ==
    IF args.grep.given /\ args.grep.val # <<>> THEN {args.grep.val}
    ELSE IF args.prompt /\ pattern # <<>> THEN {pattern}
    ELSE {}

SameIgnoringCase(s, t) ==
    /\ Len(s) = Len(t)
    /\ \A i \in 1..Len(s) : CharCode(Lower(s[i])) = CharCode(Lower(t[i]))

\* some stretch of text from..to spells the pattern's literal part, at the
\* start of the text when the pattern begins with ^
SearchFinds(p, text) ==
    LET anch == p[1] = "^"
        lit == IF anch THEN SubSeq(p, 2, Len(p)) ELSE p
    IN \E from \in 1..(Len(text) + 1) :
          /\ anch => from = 1
          /\ from + Len(lit) - 1 <= Len(text)
          /\ SameIgnoringCase(SubSeq(text, from, from + Len(lit) - 1), lit)

Tagged(cell) == cell.nbgrader /\ cell.grade_id.given

\* the cell passes the type check, the pattern check and, when idSet, the
\* tag check
PassesChecks(cell, idSet) ==
    /\ args.code => cell.cell_type = "code"
    /\ args.markdown => cell.cell_type = "markdown"
    /\ idSet => Tagged(cell) /\ cell.grade_id.val = args.id.val
    /\ \A p \in PatternSet : SearchFinds(p, cell.source)

\* what the claim makes of the cells: those passing, in order, each giving
\* its source or, in tags mode, its tag when it has one
ExpectedMatches(cells, idSet) ==
    LET Keeps(c) == PassesChecks(c, idSet) /\ (args.tags => Tagged(c))
        kept == SelectSeq(cells, Keeps)
    IN [i \in 1..Len(kept) |-> IF args.tags THEN kept[i].grade_id.val ELSE kept[i].source]

(***************************************************************************)
(* C6 as stated: the match list is, in document order, exactly the cells   *)
(* passing every active check, the tag check being active whenever --id is *)
(* given.                                                                  *)
(***************************************************************************)
C6_Original ==
    pc = "cells" => matches = ExpectedMatches(SubSeq(nb, 1, ci - 1), args.id.given)

(***************************************************************************)
(* C6 amended: the match list built from the cells filtered so far is, in  *)
(* document order and without duplication, exactly the cells passing every *)
(* active check (type, tag, pattern), each contributing its source or, in  *)
(* tags mode, its tag when it has one; the tag check is active when --id   *)
(* is given a non-empty value (--id '' filters nothing).                   *)
(***************************************************************************)
C6_MatchListIsFilteredCells ==
    pc = "cells" =>
        matches = ExpectedMatches(SubSeq(nb, 1, ci - 1), args.id.given /\ args.id.val # <<>>)

\* --code over a code cell followed by a markdown cell kept the code
\* cell's source alone
C6_Witness ==
    /\ pc = "cells"
    /\ ci = 3
    /\ args.code
    /\ ~ args.tags
    /\ nb = <<CellCodeQ1, CellMdPlain>>
    /\ matches = << <<"d", "e", "f", " ", "f">> >>

(***************************************************************************)
(* C7: a file's output is printed in one step, after its last cell was     *)
(* filtered, and only when its match list is not empty; filtering a cell   *)
(* prints nothing, and a file with no match prints nothing at all, in tags *)
(* mode too.                                                               *)
(***************************************************************************)
C7_OutputIffMatches ==
    [][pc = "cells" =>
          IF ci <= Len(nb) THEN out' = out /\ pc' = "cells"
          ELSE /\ pc' = "scan"
               /\ matches = <<>> => out' = out
               /\ matches # <<>> => Len(out') > Len(out) /\ SubSeq(out', 1, Len(out)) = out]_vars

\* tags mode over three files without a tag among their kept cells: the
\* run ended having printed the one load error and nothing else
C7_Witness ==
    /\ pc = "done"
    /\ args.tags
    /\ ~ args.code /\ ~ args.markdown /\ ~ args.id.given /\ PatternSet = {}
    /\ Len(lst) = 3
    /\ content[A_X].cells = <<CellMdPlain, CellRawNoId>>
    /\ Len(Reports) = 1

(***************************************************************************)
(* Vocabulary of the loading properties.                                   *)
(***************************************************************************)
\* what reading the i-th file of the list does
KindAt(i) ==
    content[IF lst[i][1] = "." /\ lst[i][2] = "/" THEN SubSeq(lst[i], 3, Len(lst[i])) ELSE lst[i]].kind

Skipped == {"notjson", "badenc"}

\* the list positions whose file raises an exception line 127 does not catch
Uncaught == {i \in 1..Len(lst) : KindAt(i) \notin (Skipped \cup {"nb"})}

(***************************************************************************)
(* C8: a file whose load fails with NotJSONError or UnicodeDecodeError     *)
(* gets one printed line ending in a blank and its path, and nothing else; *)
(* the loop goes on with the next file of the list; and a run in which     *)
(* every load either succeeds or fails this way - any number of failures,  *)
(* at any positions, all files included - ends with exit status 0.         *)
(***************************************************************************)
C8_LoadFailureIsSkipped ==
    /\ [][(pc = "scan" /\ idx <= Len(lst) /\ KindAt(idx) \in Skipped) =>
             /\ Len(out') = Len(out) + 1
             /\ SubSeq(out', 1, Len(out)) = out
             /\ LET line == out'[Len(out')]
                    n == Len(lst[idx])
                IN /\ Len(line) > n + 1
                   /\ SubSeq(line, Len(line) - n, Len(line)) = <<" ">> \o lst[idx]
             /\ pc' = "scan"
             /\ idx' = idx + 1
             /\ status' = status
             /\ lst' = lst]_vars
    /\ []((pc \in Terminal /\ lst # <<>> /\ Uncaught = {}) =>
             pc = "done" /\ status = 0 /\ idx = Len(lst) + 1)

\* all three files of the list failed to load, each was reported, and the
\* run ended with exit status 0
C8_Witness ==
    /\ pc = "done"
    /\ status = 0
    /\ Len(lst) = 3
    /\ \A i \in 1..3 : KindAt(i) \in Skipped
    /\ \E i \in 1..3 : KindAt(i) = "notjson"
    /\ \E i \in 1..3 : KindAt(i) = "badenc"
    /\ Len(out) = 3

(***************************************************************************)
(* C9 as stated: once scanning has started, no failure on one file keeps a *)
(* later file from being processed: when the run ends, every file of the   *)
(* list has been considered.                                               *)
(***************************************************************************)
C9_Original ==
    (pc \in Terminal /\ lst # <<>>) => idx = Len(lst) + 1

(***************************************************************************)
(* C9 amended: once scanning has started the files are taken in list       *)
(* order, one at a time, each loaded, filtered and printed before the      *)
(* next; a NotJSONError or UnicodeDecodeError on one file does not keep    *)
(* any later file from being processed, and the run ends with every file   *)
(* considered unless a file raises another exception, which ends the run   *)
(* at the first such file.                                                 *)
(***************************************************************************)
C9_FilesProcessedInOrder ==
    /\ [][/\ idx' \in {idx, idx + 1}
          /\ idx' = idx + 1 =>
                /\ idx <= Len(lst)
                /\ pc' = "scan"
                /\ \/ pc = "scan" /\ KindAt(idx) \in Skipped
                   \/ pc = "cells" /\ KindAt(idx) = "nb" /\ ci = Len(nb) + 1
          /\ (pc = "scan" /\ pc' = "cells") => KindAt(idx) = "nb" /\ ci' = 1 /\ matches' = <<>>
          /\ lst # <<>> => lst' = lst]_vars
    /\ <>(pc \in Terminal)
    /\ []((pc \in Terminal /\ lst # <<>>) =>
             IF Uncaught = {} THEN pc = "done" /\ idx = Len(lst) + 1
             ELSE pc = "raised" /\ \A i \in Uncaught : idx <= i)

\* the first file failed to load as not JSON and the run went on to load,
\* filter and print the two after it
C9_Witness ==
    /\ pc = "done"
    /\ Len(lst) = 3
    /\ KindAt(1) = "notjson"
    /\ KindAt(2) = "nb"
    /\ KindAt(3) = "nb"
    /\ idx = 4
    /\ Len(out) > 1

(***************************************************************************)
(* Vocabulary of the rendering properties.                                 *)
(***************************************************************************)
\* text without its colour escape codes: ESC [ ... m
RECURSIVE StripCodes(_)
StripCodes(t) ==
    IF t = <<>> THEN <<>>
    ELSE IF t[1] = "ESC"
         THEN LET m == CHOOSE i \in 1..Len(t) : t[i] = "m" /\ \A j \in 1..(i - 1) : t[j] # "m"
              IN StripCodes(SubSeq(t, m + 1, Len(t)))
         ELSE <<t[1]>> \o StripCodes(Tail(t))

\* a printed string in the structural colour: a header, underline or separator
Structural(t) == Len(t) >= 6 /\ SubSeq(t, 1, 6) = <<"ESC", "[", "0", "3", "1", "m">>

\* highlighted output with the structural strings removed and the colour
\* codes stripped from the rest
StripHighlighting(printed) ==
    LET NotStructural(t) == ~ Structural(t)
        rest == SelectSeq(printed, NotStructural)
    IN [i \in 1..Len(rest) |-> StripCodes(rest[i])]

\* what the same invocation without --plain prints for a file
HighlightedOutput(fn, l) == print_hits([args EXCEPT !.plain = FALSE], fn, l)

(***************************************************************************)
(* C10 as stated: in content mode --plain prints what the highlighted      *)
(* rendering prints with the colour codes, header, underline and           *)
(* separators removed, and the matched sources are separated from one      *)
(* another by blank lines.                                                 *)
(***************************************************************************)
C10_Original ==
    [][(pc = "cells" /\ ci > Len(nb) /\ args.plain /\ ~ args.tags /\ matches # <<>>) =>
          LET printed == SubSeq(out', Len(out) + 1, Len(out'))
          IN /\ printed = StripHighlighting(HighlightedOutput(lst[idx], matches))
             /\ \A i \in 1..(Len(printed) - 1) : printed[i] = <<>> \/ printed[i + 1] = <<>>]_vars

(***************************************************************************)
(* C10 amended: in content mode --plain prints what the highlighted        *)
(* rendering prints with the colour codes, header, underline and           *)
(* separators removed: the matched sources of the file, unchanged and in   *)
(* order, one after another with nothing between them, followed by one     *)
(* blank line after the last.                                              *)
(***************************************************************************)
C10_PlainIsStrippedHighlighted ==
    [][(pc = "cells" /\ ci > Len(nb) /\ args.plain /\ ~ args.tags /\ matches # <<>>) =>
          LET printed == SubSeq(out', Len(out) + 1, Len(out'))
          IN /\ printed = StripHighlighting(HighlightedOutput(lst[idx], matches))
             /\ printed = matches \o << <<>> >>]_vars

\* --plain with a pattern in force printed two matched sources and the
\* closing blank line for the first file
C10_Witness ==
    /\ pc = "scan"
    /\ idx = Len(lst) + 1
    /\ args.plain /\ ~ args.tags
    /\ PatternSet = {<<"d", "e", "f">>}
    /\ Len(matches) = 2
    /\ Len(out) >= 3
    /\ SubSeq(out, Len(out) - 2, Len(out)) = matches \o << <<>> >>

====
